---- MODULE Spec2Model ----
(***************************************************************************)
(* keyboard_tale: the text model (TextParser) and the typing state machine *)
(* (KeyboardController).                                                   *)
(*                                                                         *)
(* A text is a sequence of one-character strings.  Indices of TypingState  *)
(* are 0-based as in the source; TLA+ sequences are 1-based, so the source *)
(* expression blocks[i] is blocks[i + 1] here.                             *)
(***************************************************************************)
EXTENDS Integers, Sequences, FiniteSets

(***************************************************************************)
(* Bounds of the model.                                                    *)
(***************************************************************************)
\* longest raw text, in characters
MaxTextLen == 4
\* cap on state.totalErrors (the source's counter is unbounded)
MaxErrors == 2
\* object identities at hand; two objects at most are held at a time
MaxObjects == 3
\* largest time between two signals, in milliseconds, either way (the
\* clock may be set back)
MaxDelta == 600
\* handlers suspended at once in their await of audioEngine.initialize()
MaxStarts == 2

(***************************************************************************)
(* Characters.  The raw texts are drawn over Alphabet: a lower-case        *)
(* letter, an upper-case letter, a punctuation sign, a blank and a line    *)
(* break.                                                                  *)
(***************************************************************************)
Alphabet == {"a", "B", "!", " ", "\n"}

\* the ASCII part of the class [a-zA-ZáéíóúÁÉÍÓÚñÑ] of parseWord
LetterClass ==
  {"a", "b", "c", "d", "e", "f", "g", "h", "i", "j", "k", "l", "m",
   "n", "o", "p", "q", "r", "s", "t", "u", "v", "w", "x", "y", "z",
   "A", "B", "C", "D", "E", "F", "G", "H", "I", "J", "K", "L", "M",
   "N", "O", "P", "Q", "R", "S", "T", "U", "V", "W", "X", "Y", "Z"}

\* the characters String.prototype.trim and the class \s treat as blank
WhiteSpace == {" ", "\n", "\t", "\r"}

\* String.prototype.toLowerCase on one character
LowerChar(c) ==
  CASE c = "A" -> "a"
    [] c = "B" -> "b"
    [] c = "X" -> "x"
    [] OTHER -> c

\* String.prototype.toLowerCase on a string
toLowerCase(s) == [i \in 1..Len(s) |-> LowerChar(s[i])]

(***************************************************************************)
(* TextParser                                                              *)
(***************************************************************************)
RECURSIVE TrimStart(_)
TrimStart(s) ==
  IF s # <<>> /\ Head(s) \in WhiteSpace THEN TrimStart(Tail(s)) ELSE s

RECURSIVE TrimEnd(_)
TrimEnd(s) ==
  IF s # <<>> /\ s[Len(s)] \in WhiteSpace
    THEN TrimEnd(SubSeq(s, 1, Len(s) - 1))
    ELSE s

\* String.prototype.trimStart in the place of trim
trimStartOnly(s) == TrimStart(s)

\* String.prototype.trim
trim(s) == TrimEnd(TrimStart(s))

\* text.split('\n\n'): the pieces between the non-overlapping occurrences
\* of two line breaks, found left to right; cur is the piece being read
RECURSIVE SplitBlocksFrom(_, _)
SplitBlocksFrom(s, cur) ==
  IF s = <<>> THEN <<cur>>
  ELSE IF Len(s) >= 2 /\ s[1] = "\n" /\ s[2] = "\n"
    THEN <<cur>> \o SplitBlocksFrom(SubSeq(s, 3, Len(s)), <<>>)
    ELSE SplitBlocksFrom(Tail(s), Append(cur, Head(s)))

splitBlocks(text) == SplitBlocksFrom(text, <<>>)

\* blockText.split(/\s+/): the pieces between the maximal runs of blanks
RECURSIVE SplitWordsFrom(_, _)
SplitWordsFrom(s, cur) ==
  IF s = <<>> THEN <<cur>>
  ELSE IF Head(s) \in WhiteSpace
    THEN <<cur>> \o SplitWordsFrom(TrimStart(s), <<>>)
    ELSE SplitWordsFrom(Tail(s), Append(cur, Head(s)))

splitWords(blockText) == SplitWordsFrom(blockText, <<>>)

\* the arrays of parse and parseBlock without their filter
filterNothing(ss) == ss

\* Array.prototype.filter(x => x.length > 0)
RECURSIVE filterNonEmpty(_)
filterNonEmpty(ss) ==
  IF ss = <<>> THEN <<>>
  ELSE IF Len(Head(ss)) > 0
    THEN <<Head(ss)>> \o filterNonEmpty(Tail(ss))
    ELSE filterNonEmpty(Tail(ss))

parseWord(wordText) ==
  [characters |->
     [i \in 1..Len(wordText) |->
        [char |-> wordText[i],
         isLetter |-> wordText[i] \in LetterClass,
         isTyped |-> FALSE,
         isError |-> FALSE]],
   originalText |-> wordText]

parseBlock(blockText) ==
  LET wordTexts == filterNonEmpty(splitWords(blockText))
  IN [words |-> [i \in 1..Len(wordTexts) |-> parseWord(wordTexts[i])],
      originalText |-> blockText]

parse(text) ==
  LET raw == splitBlocks(text)
      blockTexts == filterNonEmpty([i \in 1..Len(raw) |-> trim(raw[i])])
  IN [blocks |-> [i \in 1..Len(blockTexts) |-> parseBlock(blockTexts[i])],
      originalText |-> text]

\* the positions, within word.characters, of the characters that
\* getLettersOnly keeps, in order
RECURSIVE LetterPositionsFrom(_, _)
LetterPositionsFrom(chars, i) ==
  IF i > Len(chars) THEN <<>>
  ELSE IF chars[i].isLetter
    THEN <<i>> \o LetterPositionsFrom(chars, i + 1)
    ELSE LetterPositionsFrom(chars, i + 1)

LetterPositions(word) == LetterPositionsFrom(word.characters, 1)

\* the filtered array holds the very Character objects of word.characters
getLettersOnly(word) ==
  LET pos == LetterPositions(word)
  IN [i \in 1..Len(pos) |-> word.characters[pos[i]]]

RECURSIVE SumLetters(_)
SumLetters(words) ==
  IF words = <<>> THEN 0
  ELSE Len(getLettersOnly(Head(words))) + SumLetters(Tail(words))

getTotalLettersInBlock(block) == SumLetters(block.words)

RECURSIVE SumBlocks(_)
SumBlocks(blocks) ==
  IF blocks = <<>> THEN 0
  ELSE getTotalLettersInBlock(Head(blocks)) + SumBlocks(Tail(blocks))

getTotalLetters(pt) == SumBlocks(pt.blocks)

(***************************************************************************)
(* The raw texts a session may be loaded with.                             *)
(***************************************************************************)
RECURSIVE SeqsUpTo(_, _)
SeqsUpTo(S, n) ==
  IF n = 0 THEN {<<>>}
  ELSE LET shorter == SeqsUpTo(S, n - 1)
       IN shorter \cup {Append(s, c) : s \in shorter, c \in S}

Texts == SeqsUpTo(Alphabet, MaxTextLen)

\* the key strings the input boundary may deliver
Keys == {<<"a">>, <<"A">>, <<"b">>, <<"B">>, <<"!">>, <<"a", "b">>}

(***************************************************************************)
(* KeyboardController                                                      *)
(***************************************************************************)
VARIABLES
  parsedText,     \* this.parsedText, Character flags included
  state,          \* this.state
  emitted,        \* the callbacks the last call made, in order
  completeCalls,  \* onComplete invocations since construction or reset()
  lastCall,       \* the last call made: its name, its argument and
                  \* this.state before it
  thisState,      \* the identity of the object this.state refers to
  held,           \* the TypingState object a receiver keeps: its identity,
                  \* its present value and how it was handed out
  timeDelta,      \* AudioEngine.processSignal: the local timeDelta
  velocity,       \* AudioEngine.processSignal: the local velocity
  engine,         \* the AudioEngine: its fields and the parameters of its
                  \* Tone.js nodes
  played,         \* the last processSignal call: its signal, whether it
                  \* passed the guard, and the sound commands it issued
  app             \* the KeyboardTaleApp: its fields, its suspended and
                  \* running handlers, its timers and the last input event

controllerVars == <<parsedText, state, emitted, completeCalls, lastCall>>

refVars == <<thisState, held>>

audioVars == <<timeDelta, velocity>>

engineVars == <<engine, played>>

appVars == <<app>>

vars == <<parsedText, state, emitted, completeCalls, lastCall,
          thisState, held, timeDelta, velocity, engine, played, app>>

InitialState ==
  [currentBlockIndex |-> 0,
   currentWordIndex |-> 0,
   currentLetterIndex |-> 0,
   isActive |-> FALSE,
   hasError |-> FALSE,
   totalErrors |-> 0]

\* the signal slot of an event that carries none
NoSignal ==
  [wordIndexInBlock |-> 0, totalWordsInBlock |-> 0,
   letterIndexInWord |-> 0, totalLettersInWord |-> 0,
   blockIndexInText |-> 0, totalBlocksInText |-> 0,
   isError |-> FALSE, character |-> ""]

\* the target slot of an event that has none
NoCharacter ==
  [char |-> "", isLetter |-> FALSE, isTyped |-> FALSE, isError |-> FALSE]

\* onAudioSignal(signal), observed with the state and the target Character
\* as they are at the time of the call
AudioSignalEvent(st, signal, char) ==
  [kind |-> "audioSignal", state |-> st, signal |-> signal, target |-> char]

\* a notification that carries the state of construction, not this.state
notifyStateChangeStale(st) ==
  [kind |-> "stateChange", state |-> InitialState, signal |-> NoSignal,
   target |-> NoCharacter]

\* notifyStateChange: onStateChange({ ...this.state })
notifyStateChange(st) ==
  [kind |-> "stateChange", state |-> st, signal |-> NoSignal,
   target |-> NoCharacter]

\* onComplete(), observed with the state at the time of the call
CompleteEvent(st) ==
  [kind |-> "complete", state |-> st, signal |-> NoSignal,
   target |-> NoCharacter]

\* key is the argument of handleKeyPress, empty for the other calls
Call(op, key, before) == [op |-> op, key |-> key, before |-> before]

\* what a receiver holds before anything was handed out
NoObject ==
  [obj |-> 0, value |-> InitialState, from |-> "nothing"]

\* the velocity before any signal was processed
NoVelocity == [num |-> 0, den |-> 0]

\* the AudioEngine has processed no signal
AudioIdle == timeDelta = 0 /\ velocity = NoVelocity

\* an exact fraction; den = 0 stands for the NaN or Infinity that a
\* division by zero yields
Frac(n, d) == [num |-> n, den |-> d]

\* The repository holds two AudioEngine classes: src/core/AudioEngine.ts,
\* the module main.ts imports ("core"), and the one with synthesis modes
\* and effects that AudioUI drives ("enhanced").
Builds == {"core", "enhanced"}

\* new AudioEngine(): amounts in hundredths, levels as fractions,
\* frequencies in Hz, the master gain in dB.  The core class has no
\* synthesis mode, effect or panner: those fields stay as constructed.
AudioEngine(build) ==
  [build |-> build,
   enabled |-> TRUE,
   volume |-> 0 - 10,
   baseOctave |-> 4,
   synthesisMode |-> "granular",
   reverbEnabled |-> TRUE,
   reverbAmount |-> 30,
   delayEnabled |-> FALSE,
   delayAmount |-> 20,
   panningEnabled |-> TRUE,
   isInitialized |-> FALSE,
   pendingStarts |-> 0,
   toneStarts |-> 0,
   lastKeyPressTime |-> 0,
   pan |-> Frac(0, 1),
   reverbWet |-> Frac(30, 100),
   delayWet |-> Frac(20, 100),
   masterGain |-> [muted |-> FALSE, db |-> 0 - 20]]

\* no processSignal call was made yet
NothingPlayed ==
  [signal |-> NoSignal, dropped |-> TRUE, velocity |-> NoVelocity,
   commands |-> <<>>]

\* the engine as main.ts constructs it; no signal reached it
EngineIdle == engine = AudioEngine("core") /\ played = NothingPlayed

\* the KeyboardController constructor: this.state is the first object,
\* nothing is handed out
InitController ==
  /\ \E text \in Texts : parsedText = parse(text)
  /\ state = InitialState
  /\ emitted = <<>>
  /\ completeCalls = 0
  /\ lastCall = Call("constructor", <<>>, InitialState)
  /\ thisState = 1
  /\ held = NoObject

\* no handler is between two of its steps
NoHandler == [kind |-> "none", key |-> <<>>, special |-> FALSE]

\* no input event was delivered yet
NoInput ==
  [path |-> "none", data |-> <<>>, special |-> FALSE, calls |-> <<>>]

\* new KeyboardTaleApp(): audio not initialized, no AudioUI, the listeners
\* registered, no handler suspended or running, no timer pending, the
\* mobile input not focused
AppIdle ==
  app = [isAudioInitialized |-> FALSE,
         audioUI |-> 0,
         waiting |-> <<>>,
         running |-> NoHandler,
         timers |-> 0,
         mobileFocused |-> FALSE,
         focusListener |-> TRUE,
         beforeInputHandled |-> FALSE,
         lastInput |-> NoInput]

Init == InitController /\ AudioIdle /\ EngineIdle /\ AppIdle

CurrentBlock(pt, st) == pt.blocks[st.currentBlockIndex + 1]

CurrentWord(pt, st) == CurrentBlock(pt, st).words[st.currentWordIndex + 1]

\* the null that getCurrentCharacter returns
Null == 0

\* The Character to type next: Null, or its position in the characters of
\* the current word (the returned object is that very element).
getCurrentCharacter(pt, st) ==
  IF st.currentBlockIndex >= Len(pt.blocks) THEN Null
  ELSE IF st.currentWordIndex >= Len(CurrentBlock(pt, st).words) THEN Null
  ELSE IF st.currentLetterIndex >= Len(getLettersOnly(CurrentWord(pt, st)))
    THEN Null
    ELSE LetterPositions(CurrentWord(pt, st))[st.currentLetterIndex + 1]

\* generateAudioSignal run after advance(): the indices of the next cursor
generateAudioSignalAfterAdvance(pt, st, isCorrect) ==
  LET currentBlock == CurrentBlock(pt, st)
      letters == getLettersOnly(CurrentWord(pt, st))
      currentChar == letters[st.currentLetterIndex + 1]
  IN [wordIndexInBlock |-> st.currentWordIndex,
      totalWordsInBlock |-> Len(currentBlock.words),
      letterIndexInWord |-> IF isCorrect THEN st.currentLetterIndex + 1
                                         ELSE st.currentLetterIndex,
      totalLettersInWord |-> Len(letters),
      blockIndexInText |-> st.currentBlockIndex,
      totalBlocksInText |-> Len(pt.blocks),
      isError |-> ~isCorrect,
      character |-> currentChar.char]

\* the timestamp field (Date.now()) is left out: no consumer reads it
generateAudioSignal(pt, st, isCorrect) ==
  LET currentBlock == CurrentBlock(pt, st)
      letters == getLettersOnly(CurrentWord(pt, st))
      currentChar == letters[st.currentLetterIndex + 1]
  IN [wordIndexInBlock |-> st.currentWordIndex,
      totalWordsInBlock |-> Len(currentBlock.words),
      letterIndexInWord |-> st.currentLetterIndex,
      totalLettersInWord |-> Len(letters),
      blockIndexInText |-> st.currentBlockIndex,
      totalBlocksInText |-> Len(pt.blocks),
      isError |-> ~isCorrect,
      character |-> currentChar.char]

\* complete() with the callback made first, before isActive is cleared and
\* before the notification
completeCallbackFirst(st) ==
  LET done == [st EXCEPT !.isActive = FALSE]
  IN [state |-> done,
      events |-> <<CompleteEvent(st), notifyStateChange(done)>>]

\* complete(): the state it leaves and the callbacks it makes
complete(st) ==
  LET done == [st EXCEPT !.isActive = FALSE]
  IN [state |-> done,
      events |-> <<notifyStateChange(done), CompleteEvent(done)>>]

\* advance() without the reset of currentLetterIndex at the end of a word
advanceKeepsLetterIndex(pt, st) ==
  LET currentBlock == CurrentBlock(pt, st)
      letters == getLettersOnly(CurrentWord(pt, st))
      s1 == [st EXCEPT !.currentLetterIndex = @ + 1]
      s2 == [s1 EXCEPT !.currentWordIndex = @ + 1]
      s3 == [s2 EXCEPT !.currentWordIndex = 0, !.currentBlockIndex = @ + 1]
  IN IF s1.currentLetterIndex >= Len(letters)
       THEN IF s2.currentWordIndex >= Len(currentBlock.words)
              THEN IF s3.currentBlockIndex >= Len(pt.blocks)
                     THEN complete(s3)
                     ELSE [state |-> s3, events |-> <<>>]
              ELSE [state |-> s2, events |-> <<>>]
       ELSE [state |-> s1, events |-> <<>>]

\* advance(): the state it leaves and the callbacks it makes
advance(pt, st) ==
  LET currentBlock == CurrentBlock(pt, st)
      letters == getLettersOnly(CurrentWord(pt, st))
      s1 == [st EXCEPT !.currentLetterIndex = @ + 1]
      s2 == [s1 EXCEPT !.currentLetterIndex = 0, !.currentWordIndex = @ + 1]
      s3 == [s2 EXCEPT !.currentWordIndex = 0, !.currentBlockIndex = @ + 1]
  IN IF s1.currentLetterIndex >= Len(letters)
       THEN IF s2.currentWordIndex >= Len(currentBlock.words)
              THEN IF s3.currentBlockIndex >= Len(pt.blocks)
                     THEN complete(s3)
                     ELSE [state |-> s3, events |-> <<>>]
              ELSE [state |-> s2, events |-> <<>>]
       ELSE [state |-> s1, events |-> <<>>]

\* the match branch without currentChar.isError = false
markTypedKeepsError(pt, st, pos) ==
  [pt EXCEPT !.blocks[st.currentBlockIndex + 1]
               .words[st.currentWordIndex + 1]
               .characters[pos] = [@ EXCEPT !.isTyped = TRUE]]

\* the match branch without currentChar.isTyped = true
markTypedClearsErrorOnly(pt, st, pos) ==
  [pt EXCEPT !.blocks[st.currentBlockIndex + 1]
               .words[st.currentWordIndex + 1]
               .characters[pos] = [@ EXCEPT !.isError = FALSE]]

\* currentChar.isTyped = true; currentChar.isError = false
markTyped(pt, st, pos) ==
  [pt EXCEPT !.blocks[st.currentBlockIndex + 1]
               .words[st.currentWordIndex + 1]
               .characters[pos] = [@ EXCEPT !.isTyped = TRUE,
                                            !.isError = FALSE]]

\* currentChar.isError = true
markError(pt, st, pos) ==
  [pt EXCEPT !.blocks[st.currentBlockIndex + 1]
               .words[st.currentWordIndex + 1]
               .characters[pos] = [@ EXCEPT !.isError = TRUE]]

\* the else branch without this.state.totalErrors++
recordErrorNoCount(st) == [st EXCEPT !.hasError = TRUE]

\* the else branch of handleKeyPress on this.state
recordError(st) ==
  [st EXCEPT !.hasError = TRUE, !.totalErrors = @ + 1]

\* the loops of reset() without char.isError = false
clearFlagsTypedOnly(pt) ==
  [pt EXCEPT !.blocks =
     [b \in DOMAIN pt.blocks |->
        [pt.blocks[b] EXCEPT !.words =
           [w \in DOMAIN pt.blocks[b].words |->
              [pt.blocks[b].words[w] EXCEPT !.characters =
                 [c \in DOMAIN pt.blocks[b].words[w].characters |->
                    [pt.blocks[b].words[w].characters[c]
                       EXCEPT !.isTyped = FALSE]]]]]]]

\* the forEach loops of reset()
clearFlags(pt) ==
  [pt EXCEPT !.blocks =
     [b \in DOMAIN pt.blocks |->
        [pt.blocks[b] EXCEPT !.words =
           [w \in DOMAIN pt.blocks[b].words |->
              [pt.blocks[b].words[w] EXCEPT !.characters =
                 [c \in DOMAIN pt.blocks[b].words[w].characters |->
                    [pt.blocks[b].words[w].characters[c]
                       EXCEPT !.isTyped = FALSE, !.isError = FALSE]]]]]]]

\* normalizedKey === expectedChar
\* the comparison without the lower-casing of the expected character
isCorrectKeyTextAsIs(key, char) == toLowerCase(key) = <<char>>

isCorrectKey(key, char) == toLowerCase(key) = toLowerCase(<<char>>)

CountComplete(events) ==
  Cardinality({i \in DOMAIN events : events[i].kind = "complete"})

\* start() that flips isActive instead of setting it
startToggles ==
  LET st == [state EXCEPT !.isActive = ~state.isActive]
  IN /\ state' = st
     /\ emitted' = <<notifyStateChange(st)>>
     /\ lastCall' = Call("start", <<>>, state)
     /\ UNCHANGED <<parsedText, completeCalls>>

\* stop() that also drops the pending error
stopClearsError ==
  LET st == [state EXCEPT !.isActive = FALSE, !.hasError = FALSE]
  IN /\ state' = st
     /\ emitted' = <<notifyStateChange(st)>>
     /\ lastCall' = Call("stop", <<>>, state)
     /\ UNCHANGED <<parsedText, completeCalls>>

start ==
  LET st == [state EXCEPT !.isActive = TRUE]
  IN /\ state' = st
     /\ emitted' = <<notifyStateChange(st)>>
     /\ lastCall' = Call("start", <<>>, state)
     /\ UNCHANGED <<parsedText, completeCalls>>

stop ==
  LET st == [state EXCEPT !.isActive = FALSE]
  IN /\ state' = st
     /\ emitted' = <<notifyStateChange(st)>>
     /\ lastCall' = Call("stop", <<>>, state)
     /\ UNCHANGED <<parsedText, completeCalls>>

reset ==
  /\ state' = InitialState
  /\ parsedText' = clearFlags(parsedText)
  /\ emitted' = <<notifyStateChange(InitialState)>>
  /\ completeCalls' = 0
  /\ lastCall' = Call("reset", <<>>, state)

\* Reading an array past its end yields undefined, and reading a property
\* of undefined throws a TypeError, which leaves handleKeyPress at once.
TypeErrorEvent(st) ==
  [kind |-> "TypeError", state |-> st, signal |-> NoSignal,
   target |-> NoCharacter]

\* the element reads of generateAudioSignal and advance (blocks[...],
\* words[...], letters[...]) stay within their arrays
readsInRange(pt, st) ==
  /\ st.currentBlockIndex < Len(pt.blocks)
  /\ st.currentWordIndex < Len(CurrentBlock(pt, st).words)
  /\ st.currentLetterIndex < Len(getLettersOnly(CurrentWord(pt, st)))

\* handleKeyPress without its second early return
isIgnoredNoTargetCheck(pt, st) == ~st.isActive

\* handleKeyPress without its first early return
isIgnoredNoActiveCheck(pt, st) == getCurrentCharacter(pt, st) = Null

\* the two early returns of handleKeyPress
isIgnored(pt, st) == ~st.isActive \/ getCurrentCharacter(pt, st) = Null

handleKeyPress(key) ==
  /\ lastCall' = Call("handleKeyPress", key, state)
  /\ IF isIgnored(parsedText, state)
       THEN /\ emitted' = <<>>
            /\ UNCHANGED <<parsedText, state, completeCalls>>
       ELSE IF ~readsInRange(parsedText, state)
       THEN /\ emitted' = <<TypeErrorEvent(state)>>
            /\ UNCHANGED <<parsedText, state, completeCalls>>
       ELSE
         LET pos == getCurrentCharacter(parsedText, state)
             currentChar == CurrentWord(parsedText, state).characters[pos]
             isCorrect == isCorrectKey(key, currentChar.char)
             signal == generateAudioSignal(parsedText, state, isCorrect)
             adv == advance(parsedText, [state EXCEPT !.hasError = FALSE])
             err == recordError(state)
         IN IF isCorrect
              THEN /\ parsedText' = markTyped(parsedText, state, pos)
                   /\ state' = adv.state
                   /\ emitted' = <<AudioSignalEvent(state, signal,
                                                    currentChar)>>
                                   \o adv.events
                                   \o <<notifyStateChange(adv.state)>>
                   /\ completeCalls' =
                        completeCalls + CountComplete(adv.events)
              ELSE /\ state.totalErrors < MaxErrors
                   /\ parsedText' = markError(parsedText, state, pos)
                   /\ state' = err
                   /\ emitted' = <<AudioSignalEvent(state, signal,
                                                    currentChar),
                                   notifyStateChange(err)>>
                   /\ UNCHANGED completeCalls

KeyPress == \E key \in Keys : handleKeyPress(key)

\* the controller alone: no receiver keeps an object, no audio
Next ==
  \/ start /\ UNCHANGED <<refVars, audioVars, engineVars, appVars>>
  \/ stop /\ UNCHANGED <<refVars, audioVars, engineVars, appVars>>
  \/ reset /\ UNCHANGED <<refVars, audioVars, engineVars, appVars>>
  \/ KeyPress /\ UNCHANGED <<refVars, audioVars, engineVars, appVars>>

Spec == Init /\ [][Next]_vars

(***************************************************************************)
(* A typing session driven only by correct keys: start() once, then        *)
(* handleKeyPress with the letter the cursor names (any key where the      *)
(* cursor names none).  The driver keeps typing, hence the fairness.       *)
(***************************************************************************)
InitTyping == Init /\ getTotalLetters(parsedText) >= 1

startTyping == lastCall.op = "constructor" /\ start

typeCorrect ==
  /\ lastCall.op # "constructor"
  /\ \E key \in Keys :
       /\ getCurrentCharacter(parsedText, state) # Null =>
            key = <<CurrentWord(parsedText, state)
                      .characters[getCurrentCharacter(parsedText, state)].char>>
       /\ handleKeyPress(key)

NextTyping ==
  \/ startTyping /\ UNCHANGED <<refVars, audioVars, engineVars, appVars>>
  \/ typeCorrect /\ UNCHANGED <<refVars, audioVars, engineVars, appVars>>

SpecTyping == InitTyping /\ [][NextTyping]_vars /\ WF_vars(NextTyping)

(***************************************************************************)
(* The identity of the TypingState objects.  this.state refers to one      *)
(* object; a receiver (the result of getState() kept by its caller, the    *)
(* argument of onStateChange kept as TextDisplay.updateState does) holds   *)
(* another or the same.  A write through either reference is seen through  *)
(* every reference to the same object.                                     *)
(***************************************************************************)
ObjectIds == 1..MaxObjects

\* an object literal: an object no reference in live leads to
newObject(live) ==
  CHOOSE o \in ObjectIds :
    /\ o \notin live
    /\ \A p \in ObjectIds : p < o => p \in live

\* handing out this.state itself
handOutReference(obj, live) == obj

\* { ...this.state } of notifyStateChange and getState: a new object with
\* the fields of obj
handOutCopy(obj, live) == newObject(live)

\* the state-change notifications among the events of a call
StateChanges(events) ==
  SelectSeq(events, LAMBDA e : e.kind = "stateChange")

\* what a controller call does to the references: reset() binds this.state
\* to a new literal; the receiver keeps the argument of the last
\* notification or goes on holding what it held
references ==
  /\ thisState' = IF lastCall'.op = "reset"
                    THEN newObject({thisState, held.obj})
                    ELSE thisState
  /\ \E keeps \in BOOLEAN :
       LET notified == StateChanges(emitted')
       IN held' =
            IF keeps /\ notified # <<>>
              THEN [obj |-> handOutCopy(thisState', {thisState', held.obj}),
                    value |-> notified[Len(notified)].state,
                    from |-> "onStateChange"]
              ELSE IF held.obj = thisState'
                THEN [held EXCEPT !.value = state']
                ELSE held

getState ==
  /\ held' = [obj |-> handOutCopy(thisState, {thisState, held.obj}),
              value |-> state,
              from |-> "getState"]
  /\ emitted' = <<>>
  /\ lastCall' = Call("getState", <<>>, state)
  /\ UNCHANGED <<parsedText, state, completeCalls, thisState>>

\* the assignments a receiver may make to a field of the object it holds
Writes(value) ==
  {[value EXCEPT !.isActive = ~value.isActive],
   [value EXCEPT !.hasError = ~value.hasError]}

\* a receiver assigns to a field of the object it holds
receiverWrites ==
  /\ held.obj # 0
  /\ \E written \in Writes(held.value) :
       /\ held' = [held EXCEPT !.value = written]
       /\ state' = IF held.obj = thisState THEN written ELSE state
  /\ emitted' = <<>>
  /\ lastCall' = Call("receiverWrites", <<>>, state)
  /\ UNCHANGED <<parsedText, completeCalls, thisState>>

\* the texts under which the objects are followed: a word of two letters
\* and a word without letters
RefsTexts == {<<"a", "B">>, <<"!">>}

InitRefs == Init /\ parsedText.originalText \in RefsTexts

NextRefs ==
  \/ start /\ references /\ UNCHANGED <<audioVars, engineVars, appVars>>
  \/ stop /\ references /\ UNCHANGED <<audioVars, engineVars, appVars>>
  \/ reset /\ references /\ UNCHANGED <<audioVars, engineVars, appVars>>
  \/ KeyPress /\ references /\ UNCHANGED <<audioVars, engineVars, appVars>>
  \/ getState /\ UNCHANGED <<audioVars, engineVars, appVars>>
  \/ receiverWrites /\ UNCHANGED <<audioVars, engineVars, appVars>>

SpecRefs == InitRefs /\ [][NextRefs]_vars

(***************************************************************************)
(* AudioEngine: the velocity of a signal.  The velocity is kept as the     *)
(* exact fraction num / den; the source computes the same quotient in      *)
(* floating point.                                                         *)
(***************************************************************************)
minTime == 50

maxTime == 500

\* Math.min and Math.max
min(a, b) == IF a <= b THEN a ELSE b

max(a, b) == IF a >= b THEN a ELSE b

\* calculateVelocity without the clamp of timeDelta
calculateVelocityNoClamp(delta) ==
  LET normalized == delta
  IN [num |-> (maxTime - minTime) - (normalized - minTime),
      den |-> maxTime - minTime]

\* 1 - ((normalized - minTime) / (maxTime - minTime))
calculateVelocity(delta) ==
  LET normalized == max(minTime, min(delta, maxTime))
  IN [num |-> (maxTime - minTime) - (normalized - minTime),
      den |-> maxTime - minTime]

\* now - this.lastKeyPressTime: the difference of two clock readings
Deltas == (0 - MaxDelta)..MaxDelta

\* processSignal past its guard (enabled and initialized), up to the
\* velocity; the sound it then plays is not modelled
processSignal ==
  \E delta \in Deltas :
    /\ timeDelta' = delta
    /\ velocity' = calculateVelocity(delta)

InitVelocity == Init /\ parsedText.originalText = <<>>

NextVelocity ==
  /\ processSignal
  /\ UNCHANGED <<controllerVars, refVars, engineVars, appVars>>

SpecVelocity == InitVelocity /\ [][NextVelocity]_vars

(***************************************************************************)
(* AudioEngine: from a signal to sound commands.  Levels, positions and    *)
(* velocities are exact fractions; pitches are MIDI note numbers or        *)
(* frequencies in Hz; note lengths are Tone.js note values or seconds.     *)
(***************************************************************************)
pentatonicScale == <<0, 2, 4, 7, 9>>

harmonicSeries == <<1, 2, 3, 4, 5, 6, 7, 8, 9, 10, 11, 12>>

\* [0, 1.5, 3, 4.5, 6, 7.5, 9, 10.5], in halves of a semitone
microtonalScale == <<0, 3, 6, 9, 12, 15, 18, 21>>

SynthesisModes ==
  {"granular", "pentatonic", "harmonic", "microtonal", "ambient"}

NoPitch == [unit |-> "none", num |-> 0, den |-> 1]

Midi(n) == [unit |-> "midi", num |-> n, den |-> 1]

\* a note value such as '16n'
NoteValue(n) == [note |-> n, seconds |-> Frac(0, 1)]

\* a length in seconds
Seconds(f) == [note |-> "", seconds |-> f]

\* synth.triggerAttackRelease(pitch, duration, now + offset, gain), the
\* offset in hundredths of a second, the gain in dB
Note(pitch, duration, offset, vol) ==
  [op |-> "synth", pitch |-> pitch, duration |-> duration,
   offset |-> offset, vol |-> vol]

\* frequency.rampTo(hz, 0.01) of the oscillator or the low-pass filter
Ramp(name, hz) ==
  [op |-> name, pitch |-> [unit |-> "hz", num |-> hz, den |-> 1],
   duration |-> [note |-> "", seconds |-> Frac(0, 1)],
   offset |-> 0, vol |-> Frac(0, 1)]

\* envelope.triggerAttackRelease and noiseEnvelope.triggerAttackRelease
Envelope(name, duration) ==
  [op |-> name, pitch |-> NoPitch, duration |-> duration,
   offset |-> 0, vol |-> Frac(0, 1)]

\* a + b * v for the velocity v, as a fraction
Linear(a, b, v) == Frac(a * v.den + b * v.num, v.den)

calculateDuration(v) ==
  IF 10 * v.num > 8 * v.den THEN "16n"
  ELSE IF 10 * v.num > 6 * v.den THEN "8n"
  ELSE IF 10 * v.num > 4 * v.den THEN "4n"
  ELSE "2n"

\* calculatePanning with the weights of word and letter exchanged
calculatePanningSwapped(signal) ==
  LET w == signal.wordIndexInBlock
      W == signal.totalWordsInBlock
      l == signal.letterIndexInWord
      L == signal.totalLettersInWord
  IN Frac(2 * (3 * w * L + 7 * l * W) - 10 * W * L, 10 * W * L)

\* ((w / W) * 0.7 + (l / L) * 0.3) * 2 - 1
calculatePanning(signal) ==
  LET w == signal.wordIndexInBlock
      W == signal.totalWordsInBlock
      l == signal.letterIndexInWord
      L == signal.totalLettersInWord
  IN Frac(2 * (7 * w * L + 3 * l * W) - 10 * W * L, 10 * W * L)

\* updateEffects with the progress counted down
updateEffectsFading(e, signal) ==
  LET b == signal.totalBlocksInText - signal.blockIndexInText
      B == signal.totalBlocksInText
  IN [e EXCEPT
        !.reverbWet = IF e.reverbEnabled
                        THEN Frac(e.reverbAmount * (3 * B + 7 * b), 1000 * B)
                        ELSE @,
        !.delayWet = IF e.delayEnabled
                       THEN Frac(e.delayAmount * b, 100 * B)
                       ELSE @]

\* reverbAmount * (0.3 + blockProgress * 0.7) and delayAmount * blockProgress
updateEffects(e, signal) ==
  LET b == signal.blockIndexInText
      B == signal.totalBlocksInText
  IN [e EXCEPT
        !.reverbWet = IF e.reverbEnabled
                        THEN Frac(e.reverbAmount * (3 * B + 7 * b), 1000 * B)
                        ELSE @,
        !.delayWet = IF e.delayEnabled
                       THEN Frac(e.delayAmount * b, 100 * B)
                       ELSE @]

\* Math.max(index * 200, minFreq)
GranularFrequency(index) == max(index * 200, 50)

\* the envelopes last envelopeTime * (0.5 + velocity * 0.5) seconds
playGranularSound(signal, v) ==
  LET length == Frac(v.den + v.num, 2 * v.den)
  IN <<Ramp("lowPassFilter", GranularFrequency(signal.wordIndexInBlock)),
       Ramp("oscillator", GranularFrequency(signal.letterIndexInWord)),
       Envelope("envelope", Seconds(length)),
       Envelope("noiseEnvelope", Seconds(length))>>

playPentatonicSound(e, signal, v) ==
  LET scaleIndex == signal.letterIndexInWord % Len(pentatonicScale)
      octaveOffset == signal.wordIndexInBlock \div 5
      octave == e.baseOctave + octaveOffset
      note == pentatonicScale[scaleIndex + 1]
  IN <<Note(Midi(note + octave * 12), NoteValue(calculateDuration(v)), 0,
            Linear(0 - 15, 10, v))>>

playHarmonicSound(e, signal, v) ==
  LET harmonicIndex == (signal.letterIndexInWord % Len(harmonicSeries)) + 1
      harmonic == harmonicSeries[harmonicIndex]
  IN <<Note([unit |-> "hz",
             num |-> 55 * harmonic * (100 + signal.wordIndexInBlock * 5),
             den |-> 100],
            NoteValue(calculateDuration(v)), 0, Linear(0 - 18, 12, v))>>

playMicrotonalSound(e, signal, v) ==
  LET scaleIndex == signal.letterIndexInWord % Len(microtonalScale)
      octaveOffset == signal.wordIndexInBlock \div 4
      octave == e.baseOctave + octaveOffset
  IN <<Note([unit |-> "midi",
             num |-> microtonalScale[scaleIndex + 1] + 2 * (octave * 12),
             den |-> 2],
            NoteValue(calculateDuration(v)), 0, Linear(0 - 16, 10, v))>>

playAmbientSound(e, signal, v) ==
  LET scaleIndex == signal.letterIndexInWord % Len(pentatonicScale)
      octave == e.baseOctave - 1
      note == pentatonicScale[scaleIndex + 1]
  IN <<Note(Midi(note + octave * 12), NoteValue("2n"), 0,
            Linear(0 - 20, 8, v))>>

playCorrectSound(e, signal, v) ==
  CASE e.synthesisMode = "granular" -> playGranularSound(signal, v)
    [] e.synthesisMode = "pentatonic" -> playPentatonicSound(e, signal, v)
    [] e.synthesisMode = "harmonic" -> playHarmonicSound(e, signal, v)
    [] e.synthesisMode = "microtonal" -> playMicrotonalSound(e, signal, v)
    [] e.synthesisMode = "ambient" -> playAmbientSound(e, signal, v)

\* the cluster E2, F2, A#2, each note 20 ms after the one before
playErrorSound(signal, v) ==
  LET baseNote == 40
      notes == <<baseNote, baseNote + 1, baseNote + 6>>
  IN [i \in 1..3 |->
        Note(Midi(notes[i]), NoteValue("16n"), (i - 1) * 2,
             Linear(0 - 12, 8, v))]

\* a guard that lets signals through before initialization
passesGuardEnabledOnly(e) == e.enabled

\* the guard of both processSignal methods
passesGuard(e) == e.enabled /\ e.isInitialized

\* what a dropped signal leaves behind: nothing but the record of the call
Dropped(e, signal) ==
  [engine |-> e,
   played |-> [signal |-> signal, dropped |-> TRUE, velocity |-> NoVelocity,
               commands |-> <<>>]]

\* processSignal of the class with synthesis modes; now is Date.now()
processSignalEnhanced(e, signal, now) ==
  IF ~passesGuard(e) THEN Dropped(e, signal)
  ELSE
    LET delta == now - e.lastKeyPressTime
        v == calculateVelocity(delta)
        timed == [e EXCEPT !.lastKeyPressTime = now]
        panned == IF timed.panningEnabled
                    THEN [timed EXCEPT !.pan = calculatePanning(signal)]
                    ELSE timed
        wet == updateEffects(panned, signal)
    IN [engine |-> wet,
        played |-> [signal |-> signal, dropped |-> FALSE, velocity |-> v,
                    commands |-> IF signal.isError
                                   THEN playErrorSound(signal, v)
                                   ELSE playCorrectSound(wet, signal, v)]]

\* processSignal of src/core/AudioEngine.ts: an error signal returns
\* without a sound, a correct one ramps both frequencies and triggers both
\* envelopes for envelopeTime
processSignalCore(e, signal) ==
  IF ~passesGuard(e) THEN Dropped(e, signal)
  ELSE
    [engine |-> e,
     played |-> [signal |-> signal, dropped |-> FALSE,
                 velocity |-> NoVelocity,
                 commands |->
                   IF signal.isError THEN <<>>
                   ELSE <<Ramp("lowPassFilter",
                               GranularFrequency(signal.wordIndexInBlock)),
                          Ramp("oscillator",
                               GranularFrequency(signal.letterIndexInWord)),
                          Envelope("envelope", Seconds(Frac(1, 1))),
                          Envelope("noiseEnvelope", Seconds(Frac(1, 1)))>>]]

\* App.handleAudioSignal: the signal goes to the engine at once
handleAudioSignal(signal, now) ==
  LET done == IF engine.build = "core"
                THEN processSignalCore(engine, signal)
                ELSE processSignalEnhanced(engine, signal, now)
  IN /\ engine' = done.engine
     /\ played' = done.played

\* initialize() up to its await: a call on an initialized engine returns,
\* any other call requests Tone.start() and is suspended
initializeCalled(e) ==
  IF e.isInitialized THEN e
  ELSE [e EXCEPT !.toneStarts = @ + 1, !.pendingStarts = @ + 1]

\* initialize() that returns behind its await without setting the flag
initializeResumedUnset(e) == [e EXCEPT !.pendingStarts = @ - 1]

\* initialize() after its await: Tone.start() has resolved
initializeResumed(e) ==
  [e EXCEPT !.isInitialized = TRUE, !.pendingStarts = @ - 1]

\* the master gain: 10^(volume / 20), 0.1 in the core class, 0 when disabled
masterGainOf(e) ==
  IF ~e.enabled THEN [muted |-> TRUE, db |-> 0]
  ELSE IF e.build = "core" THEN [muted |-> FALSE, db |-> 0 - 20]
  ELSE [muted |-> FALSE, db |-> e.volume]

setEnabledOn(e, enabled) ==
  LET set == [e EXCEPT !.enabled = enabled]
  IN [set EXCEPT !.masterGain = masterGainOf(set)]

(***************************************************************************)
(* The engine alone, driven by any caller: signals at chosen positions of  *)
(* a text, clock readings that lie a medium, a slow and a very slow        *)
(* keystroke apart, and any synthesis mode chosen at construction.         *)
(***************************************************************************)
\* the signals of the first, second and sixth letter of the first and the
\* sixth word of either block of a text of two blocks of six six-letter
\* words, correct or not
Signals ==
  {[wordIndexInBlock |-> w, totalWordsInBlock |-> 6,
    letterIndexInWord |-> l, totalLettersInWord |-> 6,
    blockIndexInText |-> b, totalBlocksInText |-> 2,
    isError |-> err, character |-> "a"] :
     w \in {0, 5}, l \in {0, 1, 5}, b \in {0, 1}, err \in BOOLEAN}

\* Date.now() at the calls
Clock == {1000, 1200, 1500}

\* new AudioEngine(config) with a synthesis mode and the delay switch
Configured(build, mode, delayEnabled) ==
  [AudioEngine(build) EXCEPT !.synthesisMode = mode,
                             !.delayEnabled = delayEnabled]

\* a caller that awaits initialize() before it calls again
initialize ==
  /\ engine.pendingStarts = 0
  /\ ~engine.isInitialized
  /\ engine' = initializeCalled(engine)
  /\ UNCHANGED played

toneStarted ==
  /\ engine.pendingStarts > 0
  /\ engine' = initializeResumed(engine)
  /\ UNCHANGED played

setEnabled ==
  \E enabled \in BOOLEAN :
    /\ engine' = setEnabledOn(engine, enabled)
    /\ UNCHANGED played

signalArrives ==
  \E signal \in Signals, now \in Clock : handleAudioSignal(signal, now)

InitAudio ==
  /\ InitController
  /\ parsedText.originalText = <<>>
  /\ AudioIdle
  /\ \/ engine = AudioEngine("core")
     \/ \E mode \in SynthesisModes, delayEnabled \in BOOLEAN :
          engine = Configured("enhanced", mode, delayEnabled)
  /\ played = NothingPlayed
  /\ AppIdle

NextAudio ==
  \/ initialize
       /\ UNCHANGED <<controllerVars, refVars, audioVars, appVars>>
  \/ toneStarted
       /\ UNCHANGED <<controllerVars, refVars, audioVars, appVars>>
  \/ setEnabled
       /\ UNCHANGED <<controllerVars, refVars, audioVars, appVars>>
  \/ signalArrives
       /\ UNCHANGED <<controllerVars, refVars, audioVars, appVars>>

SpecAudio == InitAudio /\ [][NextAudio]_vars

(***************************************************************************)
(* KeyboardTaleApp (main.ts).  A handler runs to its end before another    *)
(* event is taken; a handler that awaits audioEngine.initialize() is       *)
(* suspended there and resumed when Tone.start() has resolved, in the      *)
(* order of the calls.  The keydown handler that starts the controller     *)
(* is written as two steps (app.running holds the handler between them),   *)
(* and no event is taken between the two.                                  *)
(***************************************************************************)
\* a keydown or focus handler, with event.key and whether ctrlKey, altKey
\* or metaKey is set
Handler(kind, key, special) ==
  [kind |-> kind, key |-> key, special |-> special]

\* what the last input event carried and the handleKeyPress calls its
\* handler made
Input(path, data, special, calls) ==
  [path |-> path, data |-> data, special |-> special, calls |-> calls]

\* handleComplete that schedules the restart twice
handleCompleteTwoTimers(a) == [a EXCEPT !.timers = @ + 2]

\* handleComplete: setTimeout(() => this.restart(), 3000)
handleComplete(a) == [a EXCEPT !.timers = @ + 1]

\* Date.now() at the keystrokes of the application
AppClock == {1000, 1500}

\* handleKeyPress left by a TypeError
Threw == \E i \in DOMAIN emitted' : emitted'[i].kind = "TypeError"

\* this.handleKeyPress(key) in a handler, with the callbacks of the
\* controller: handleAudioSignal at once, handleComplete at completion.
\* done is the app when the handler has run to its end, thrown the app
\* when the call has thrown.
appHandleKeyPress(key, done, thrown) ==
  /\ handleKeyPress(key)
  /\ \E now \in AppClock :
       IF emitted' # <<>> /\ emitted'[1].kind = "audioSignal"
         THEN handleAudioSignal(emitted'[1].signal, now)
         ELSE UNCHANGED engineVars
  /\ app' = IF Threw THEN thrown
            ELSE IF CountComplete(emitted') > 0 THEN handleComplete(done)
            ELSE done

\* if (controller && !controller.getState().isActive) controller.start()
startIfIdle == IF state.isActive THEN UNCHANGED controllerVars ELSE start

\* the end of the keydown handler: special keys are ignored, any other
\* key goes to handleKeyPress
keydownKey(a, key, special) ==
  IF special \/ Len(key) > 1
    THEN /\ app' = [a EXCEPT
                      !.lastInput = Input("keydown", key, special, <<>>)]
         /\ UNCHANGED <<controllerVars, engineVars>>
    ELSE LET done == [a EXCEPT
                        !.lastInput = Input("keydown", key, special, <<key>>)]
         IN appHandleKeyPress(key, done, done)

\* the event.key of a keydown, the data of a beforeinput, the value of the
\* input element at an input event
AppKeys == {<<"a">>, <<"b">>, <<"a", "b">>}

\* a keydown while the mobile input is not the active element
keydown ==
  \E key \in AppKeys, special \in BOOLEAN :
    /\ special => key = <<"a">>
    /\ app.running = NoHandler
    /\ ~app.mobileFocused
    /\ IF ~app.isAudioInitialized
         THEN /\ Len(app.waiting) < MaxStarts
              /\ engine' = initializeCalled(engine)
              /\ app' = [app EXCEPT
                           !.waiting =
                              Append(@, Handler("keydown", key, special))]
              /\ UNCHANGED <<controllerVars, played>>
         ELSE IF ~state.isActive
         THEN /\ start
              /\ app' = [app EXCEPT
                           !.running = Handler("keydown", key, special)]
              /\ UNCHANGED engineVars
         ELSE keydownKey(app, key, special)

\* the keydown handler goes on after it has started the controller
keydownGoesOn ==
  /\ app.running.kind = "keydown"
  /\ keydownKey([app EXCEPT !.running = NoHandler],
                app.running.key, app.running.special)

\* the mobile input gets the focus; its focus listener runs once
focus ==
  /\ app.running = NoHandler
  /\ ~app.mobileFocused
  /\ IF ~app.focusListener
       THEN /\ app' = [app EXCEPT !.mobileFocused = TRUE]
            /\ UNCHANGED <<controllerVars, engineVars>>
       ELSE IF ~app.isAudioInitialized
       THEN /\ Len(app.waiting) < MaxStarts
            /\ engine' = initializeCalled(engine)
            /\ app' = [app EXCEPT
                         !.mobileFocused = TRUE,
                         !.focusListener = FALSE,
                         !.waiting = Append(@, Handler("focus", <<>>, FALSE))]
            /\ UNCHANGED <<controllerVars, played>>
       ELSE /\ startIfIdle
            /\ app' = [app EXCEPT !.mobileFocused = TRUE,
                                  !.focusListener = FALSE]
            /\ UNCHANGED engineVars

\* the mobile input loses the focus
blur ==
  /\ app.running = NoHandler
  /\ app.mobileFocused
  /\ app' = [app EXCEPT !.mobileFocused = FALSE]
  /\ UNCHANGED <<controllerVars, engineVars>>

\* buildHTML of AudioUI calls audioEngine.getConfig(), a method that the
\* class of src/core/AudioEngine.ts does not have: the call throws a
\* TypeError, which leaves the AudioUI constructor and the handler
hasGetConfig(e) == e.build = "enhanced"

\* new AudioUI(...) without the test of this.audioUI
newAudioUIUnguarded(a) == [a EXCEPT !.audioUI = @ + 1]

\* if (!this.audioUI) this.audioUI = new AudioUI(this.audioEngine);
\* app.audioUI counts the panels constructed
newAudioUI(a) == [a EXCEPT !.audioUI = IF @ = 0 THEN 1 ELSE @]

\* Tone.start() has resolved for the handler suspended first: initialize()
\* returns and the handler goes on behind its await
audioStarted ==
  /\ app.running = NoHandler
  /\ app.waiting # <<>>
  /\ engine' = initializeResumed(engine)
  /\ UNCHANGED played
  /\ LET resumed == [app EXCEPT !.waiting = Tail(@),
                                !.isAudioInitialized = TRUE]
     IN IF app.audioUI = 0 /\ ~hasGetConfig(engine)
          THEN /\ app' = resumed
               /\ UNCHANGED controllerVars
          ELSE /\ startIfIdle
               /\ app' = [newAudioUI(resumed) EXCEPT
                            !.running = IF Head(app.waiting).kind = "keydown"
                                          THEN Head(app.waiting)
                                          ELSE NoHandler]

\* beforeinput with data: its first character goes to handleKeyPress
beforeinput ==
  \E data \in AppKeys :
    /\ app.running = NoHandler
    /\ app.mobileFocused
    /\ LET logged == [app EXCEPT
                        !.lastInput = Input("beforeinput", data, FALSE,
                                            <<<<data[1]>>>>)]
       IN appHandleKeyPress(<<data[1]>>,
                            [logged EXCEPT !.beforeInputHandled = TRUE],
                            logged)

\* setTimeout(() => { beforeInputHandled = false }, 0)
flagReset ==
  /\ app.running = NoHandler
  /\ app.beforeInputHandled
  /\ app' = [app EXCEPT !.beforeInputHandled = FALSE]
  /\ UNCHANGED <<controllerVars, engineVars>>

\* an input event that beforeinput did not handle: the last character of
\* the value goes to handleKeyPress
input ==
  \E value \in AppKeys :
    /\ app.running = NoHandler
    /\ app.mobileFocused
    /\ ~app.beforeInputHandled
    /\ LET logged == [app EXCEPT
                        !.lastInput = Input("input", value, FALSE,
                                            <<<<value[Len(value)]>>>>)]
       IN appHandleKeyPress(<<value[Len(value)]>>, logged, logged)

\* loadText: a controller constructed on a fresh parse of the text
loadText(text) ==
  /\ parsedText' = parse(text)
  /\ state' = InitialState
  /\ emitted' = <<>>
  /\ completeCalls' = 0
  /\ lastCall' = Call("constructor", <<>>, InitialState)

\* the restart timer fires: restart() resets the controller and the
\* display, and initialize() loads the text again
restart ==
  /\ app.running = NoHandler
  /\ app.timers > 0
  /\ loadText(parsedText.originalText)
  /\ app' = [app EXCEPT !.timers = @ - 1]
  /\ UNCHANGED engineVars

\* the texts of the application: one word, two words, two blocks
AppTexts == {<<"a", "B">>, <<"a", " ", "B">>, <<"a", "\n", "\n", "B">>}

InitApp ==
  /\ InitController
  /\ parsedText.originalText \in AppTexts
  /\ AudioIdle
  /\ \E build \in Builds : engine = AudioEngine(build)
  /\ played = NothingPlayed
  /\ AppIdle

NextApp ==
  \/ keydown /\ UNCHANGED <<refVars, audioVars>>
  \/ keydownGoesOn /\ UNCHANGED <<refVars, audioVars>>
  \/ focus /\ UNCHANGED <<refVars, audioVars>>
  \/ blur /\ UNCHANGED <<refVars, audioVars>>
  \/ audioStarted /\ UNCHANGED <<refVars, audioVars>>
  \/ beforeinput /\ UNCHANGED <<refVars, audioVars>>
  \/ flagReset /\ UNCHANGED <<refVars, audioVars>>
  \/ input /\ UNCHANGED <<refVars, audioVars>>
  \/ restart /\ UNCHANGED <<refVars, audioVars>>

SpecApp == InitApp /\ [][NextApp]_vars

(***************************************************************************)
(* Vocabulary of the properties.  It is stated on the data (blocks, words, *)
(* characters, the recorded call), not through the operators above.        *)
(***************************************************************************)
NumBlocks == Len(parsedText.blocks)

\* the terminal state: the cursor has passed the last block
IsComplete == state.currentBlockIndex >= NumBlocks

Cursor(st) ==
  <<st.currentBlockIndex, st.currentWordIndex, st.currentLetterIndex>>

NumLetters(word) ==
  Cardinality({i \in DOMAIN word.characters : word.characters[i].isLetter})

\* every Character of the text, as <<block, word, character>> (1-based)
Positions ==
  UNION {UNION {{<<b, w, c>> :
                   c \in DOMAIN parsedText.blocks[b].words[w].characters} :
                w \in DOMAIN parsedText.blocks[b].words} :
         b \in DOMAIN parsedText.blocks}

CharAt(p) == parsedText.blocks[p[1]].words[p[2]].characters[p[3]]

\* the 0-based letter index of the letter at p within its word
LetterIndexOf(p) ==
  Cardinality({i \in 1..(p[3] - 1) :
                 parsedText.blocks[p[1]].words[p[2]].characters[i].isLetter})

\* the cursor st names an existing letter
NamesLetter(st) ==
  /\ st.currentBlockIndex < NumBlocks
  /\ st.currentWordIndex
       < Len(parsedText.blocks[st.currentBlockIndex + 1].words)
  /\ st.currentLetterIndex
       < NumLetters(parsedText.blocks[st.currentBlockIndex + 1]
                      .words[st.currentWordIndex + 1])

\* the Character the cursor st names
TargetOf(st) ==
  CHOOSE p \in Positions :
    /\ p[1] = st.currentBlockIndex + 1
    /\ p[2] = st.currentWordIndex + 1
    /\ CharAt(p).isLetter
    /\ LetterIndexOf(p) = st.currentLetterIndex

\* key is the letter c, in either case
SameLetter(key, c) ==
  /\ Len(key) = 1
  /\ key[1] = c \/ {key[1], c} \in {{"a", "A"}, {"b", "B"}}

\* the last call was a handleKeyPress made while active on a target letter
Accepted ==
  /\ lastCall.op = "handleKeyPress"
  /\ lastCall.before.isActive
  /\ NamesLetter(lastCall.before)

TypedCorrect ==
  Accepted /\ SameLetter(lastCall.key, CharAt(TargetOf(lastCall.before)).char)

TypedWrong ==
  Accepted /\ ~SameLetter(lastCall.key, CharAt(TargetOf(lastCall.before)).char)

\* a < b in reading order
Before(a, b) ==
  \/ a[1] < b[1]
  \/ a[1] = b[1] /\ a[2] < b[2]
  \/ a[1] = b[1] /\ a[2] = b[2] /\ a[3] < b[3]

\* the cursor of the letter at p
CursorOf(p) == <<p[1] - 1, p[2] - 1, LetterIndexOf(p)>>

(***************************************************************************)
(* C1: for a text with at least one letter, typing the correct letter at   *)
(* every position from the state after start() eventually reaches and      *)
(* keeps Complete (cursor past the last block, isActive false), with the   *)
(* completion callback invoked exactly once and totalErrors = 0.           *)
(***************************************************************************)
C1_CorrectTypingCompletes ==
  <>[](/\ state.currentBlockIndex = NumBlocks
       /\ ~state.isActive
       /\ completeCalls = 1
       /\ state.totalErrors = 0)

(***************************************************************************)
(* C2: a mismatching key on a target letter, while active, leaves the      *)
(* three indices unchanged, adds exactly 1 to totalErrors, sets hasError   *)
(* and the target's isError; the letter is not skipped (it is still the    *)
(* target and is not marked typed).                                        *)
(***************************************************************************)
C2_MismatchRecordsError ==
  TypedWrong =>
    /\ Cursor(state) = Cursor(lastCall.before)
    /\ state.totalErrors = lastCall.before.totalErrors + 1
    /\ state.hasError
    /\ CharAt(TargetOf(lastCall.before)).isError
    /\ ~CharAt(TargetOf(lastCall.before)).isTyped
    /\ state.isActive

\* a second mismatch in a row on the second letter of a word
C2_Witness ==
  /\ TypedWrong
  /\ lastCall.before.hasError
  /\ lastCall.before.currentLetterIndex = 1
  /\ state.totalErrors = 2

(***************************************************************************)
(* C3: a matching key on the target letter, while active, sets the         *)
(* target's isTyped, clears its isError, clears hasError and leaves        *)
(* totalErrors as it was, whatever mismatches were recorded there before.  *)
(***************************************************************************)
C3_MatchMarksTyped ==
  TypedCorrect =>
    /\ CharAt(TargetOf(lastCall.before)).isTyped
    /\ ~CharAt(TargetOf(lastCall.before)).isError
    /\ ~state.hasError
    /\ state.totalErrors = lastCall.before.totalErrors

\* the match follows two mismatches at the same position
C3_Witness ==
  /\ TypedCorrect
  /\ lastCall.before.hasError
  /\ lastCall.before.totalErrors = 2
  /\ lastCall.before.currentLetterIndex = 1

(***************************************************************************)
(* C4: a correct keystroke moves the cursor to letter index + 1 of the     *)
(* same word if the word has a letter there, otherwise to letter 0 of the  *)
(* next word of the block, otherwise to word 0, letter 0 of the next       *)
(* block, otherwise to Complete; it moves forward in reading order and     *)
(* passes over no letter.                                                  *)
(***************************************************************************)
C4_Expected(st) ==
  LET b == st.currentBlockIndex
      w == st.currentWordIndex
      l == st.currentLetterIndex
      words == parsedText.blocks[b + 1].words
  IN IF l + 1 < NumLetters(words[w + 1]) THEN <<b, w, l + 1>>
     ELSE IF w + 1 < Len(words) THEN <<b, w + 1, 0>>
     ELSE IF b + 1 < NumBlocks THEN <<b + 1, 0, 0>>
     ELSE <<NumBlocks, 0, 0>>

C5_NonLettersAutoSatisfied ==
  /\ \A p \in Positions :
       ~CharAt(p).isLetter => ~CharAt(p).isError
  /\ \A i \in DOMAIN emitted :
       emitted[i].kind = "audioSignal" =>
         emitted[i].signal.character \in LetterClass
  /\ (state.isActive /\ state.currentBlockIndex < NumBlocks) =>
       LET word == parsedText.blocks[state.currentBlockIndex + 1]
                     .words[state.currentWordIndex + 1]
           typed == {i \in DOMAIN word.characters :
                       word.characters[i].isLetter
                       /\ word.characters[i].isTyped}
       IN /\ Cardinality(typed) = state.currentLetterIndex
          /\ Cardinality(typed) < NumLetters(word)

(***************************************************************************)
(* C6: reset(), from any state, leaves TypingState at (0,0,0), inactive,   *)
(* no error, totalErrors 0, every Character with isTyped and isError       *)
(* false, and emits one state-change notification carrying that state.     *)
(***************************************************************************)
C6_ResetRestoresInitial ==
  lastCall.op = "reset" =>
    /\ state = [currentBlockIndex |-> 0, currentWordIndex |-> 0,
                currentLetterIndex |-> 0, isActive |-> FALSE,
                hasError |-> FALSE, totalErrors |-> 0]
    /\ \A p \in Positions : ~CharAt(p).isTyped /\ ~CharAt(p).isError
    /\ Len(emitted) = 1
    /\ emitted[1].kind = "stateChange"
    /\ emitted[1].state = state

\* reset() was called mid-word, while active, with an error pending
C6_Witness ==
  /\ lastCall.op = "reset"
  /\ lastCall.before.isActive
  /\ lastCall.before.hasError
  /\ lastCall.before.currentLetterIndex = 1
  /\ lastCall.before.totalErrors = 2

(***************************************************************************)
(* C7: while isActive is false, handleKeyPress changes no TypingState      *)
(* field and no Character flag and makes no callback; stop() and reset()   *)
(* leave isActive false, so they hold for the very next keystroke.         *)
(***************************************************************************)
C7_InactiveIgnoresKeys ==
  [][/\ (lastCall'.op = "handleKeyPress" /\ ~state.isActive) =>
          /\ state' = state
          /\ parsedText' = parsedText
          /\ emitted' = <<>>
          /\ completeCalls' = completeCalls
     /\ lastCall'.op \in {"stop", "reset"} => ~state'.isActive]_vars

\* a key pressed after a stop() made mid-word with an error pending
C7_Witness ==
  /\ lastCall.op = "handleKeyPress"
  /\ ~lastCall.before.isActive
  /\ lastCall.before.currentLetterIndex = 1
  /\ lastCall.before.hasError
  /\ emitted = <<>>

(***************************************************************************)
(* C8: onComplete is invoked only by the correct keystroke on the last     *)
(* letter of the last word of the last block, at most once between two     *)
(* reset() calls; when it is invoked isActive is already false and a       *)
(* state-change notification with isActive = false and currentBlockIndex = *)
(* block count was emitted before it.                                      *)
(***************************************************************************)
C8_CompletionOnceAfterNotification ==
  /\ completeCalls <= 1
  /\ \A i \in DOMAIN emitted :
       emitted[i].kind = "complete" =>
         /\ TypedCorrect
         /\ lastCall.before.currentBlockIndex = NumBlocks - 1
         /\ lastCall.before.currentWordIndex =
              Len(parsedText.blocks[NumBlocks].words) - 1
         /\ lastCall.before.currentLetterIndex =
              NumLetters(parsedText.blocks[NumBlocks]
                           .words[Len(parsedText.blocks[NumBlocks].words)]) - 1
         /\ ~emitted[i].state.isActive
         /\ \E j \in 1..(i - 1) :
              /\ emitted[j].kind = "stateChange"
              /\ ~emitted[j].state.isActive
              /\ emitted[j].state.currentBlockIndex = NumBlocks
         /\ \A j \in DOMAIN emitted :
              emitted[j].kind = "complete" => j = i

\* the completing keystroke of a text of two blocks
C8_Witness ==
  /\ NumBlocks = 2
  /\ completeCalls = 1
  /\ \E i \in DOMAIN emitted : emitted[i].kind = "complete"

(***************************************************************************)
(* C9: Complete is terminal until reset(): once the text was completed, no *)
(* call but reset() changes the cursor, a Character flag or totalErrors,   *)
(* makes isActive true, or invokes onComplete again.                       *)
(***************************************************************************)
C9_CompleteIsTerminal ==
  [][(/\ state.currentBlockIndex >= NumBlocks
      /\ completeCalls = 1
      /\ lastCall'.op # "reset") =>
        /\ Cursor(state') = Cursor(state)
        /\ parsedText' = parsedText
        /\ state'.totalErrors = state.totalErrors
        /\ ~state'.isActive
        /\ \A i \in DOMAIN emitted' : emitted'[i].kind # "complete"]_vars

(***************************************************************************)
(* C10: every Character, letter or not, in a block before                  *)
(* currentBlockIndex, or in a word before currentWordIndex of the current  *)
(* block, has isTyped = true.                                              *)
(***************************************************************************)
BehindCursor(p) ==
  \/ p[1] - 1 < state.currentBlockIndex
  \/ p[1] - 1 = state.currentBlockIndex /\ p[2] - 1 < state.currentWordIndex

C10_AllEarlierCharactersTyped ==
  \A p \in Positions : BehindCursor(p) => CharAt(p).isTyped

\* C10 as amended: every letter Character in a block before
\* currentBlockIndex, or in a word before currentWordIndex of the current
\* block, has isTyped = true (non-letters never carry isTyped).
C10_EarlierLettersTyped ==
  \A p \in Positions :
    (BehindCursor(p) /\ CharAt(p).isLetter) => CharAt(p).isTyped

\* the cursor is on the second word, past a word that holds a non-letter
C10_Witness ==
  /\ state.currentWordIndex = 1
  /\ state.isActive
  /\ \E p \in Positions :
       BehindCursor(p) /\ ~CharAt(p).isLetter /\ ~CharAt(p).isTyped
  /\ \E p \in Positions : BehindCursor(p) /\ CharAt(p).isLetter

(***************************************************************************)
(* C11: in every reachable state with currentBlockIndex < number of        *)
(* blocks the cursor names an existing letter: currentWordIndex < number   *)
(* of words of the current block and currentLetterIndex < number of        *)
(* letters of the current word, for every text parse can produce.          *)
(***************************************************************************)
C11_CursorNamesLetter ==
  state.currentBlockIndex < NumBlocks =>
    /\ state.currentWordIndex
         < Len(parsedText.blocks[state.currentBlockIndex + 1].words)
    /\ state.currentLetterIndex
         < Cardinality(
             {c \in DOMAIN parsedText.blocks[state.currentBlockIndex + 1]
                             .words[state.currentWordIndex + 1].characters :
                parsedText.blocks[state.currentBlockIndex + 1]
                  .words[state.currentWordIndex + 1].characters[c].isLetter})

(***************************************************************************)
(* C12: no call reads a block, word or letter outside its array (no call   *)
(* ends in a TypeError): an AudioSignal is generated, and the cursor is    *)
(* advanced, only by a handleKeyPress whose cursor named an existing       *)
(* letter, and the signal is generated at that same cursor.                *)
(***************************************************************************)
C12_ReadsStayInRange ==
  /\ \A i \in DOMAIN emitted : emitted[i].kind # "TypeError"
  /\ \A i \in DOMAIN emitted :
       emitted[i].kind = "audioSignal" =>
         /\ lastCall.op = "handleKeyPress"
         /\ NamesLetter(lastCall.before)
         /\ Cursor(emitted[i].state) = Cursor(lastCall.before)
  /\ (lastCall.op = "handleKeyPress"
      /\ Cursor(state) # Cursor(lastCall.before)) =>
       NamesLetter(lastCall.before)

\* a key pressed while active with the cursor on a second word that has no
\* letters: nothing is read and nothing is emitted
C12_Witness ==
  /\ lastCall.op = "handleKeyPress"
  /\ lastCall.before.isActive
  /\ lastCall.before.currentWordIndex = 1
  /\ ~NamesLetter(lastCall.before)
  /\ emitted = <<>>
  /\ state = lastCall.before

(***************************************************************************)
(* C13: the parse of an empty or whitespace-only text has zero blocks, and *)
(* a controller built on it takes every start(), stop(), reset() and       *)
(* handleKeyPress without error: every handleKeyPress is a no-op, the      *)
(* cursor stays at (0,0,0) and no signal is emitted.                       *)
(***************************************************************************)
C13_BlankText ==
  \A i \in DOMAIN parsedText.originalText :
    parsedText.originalText[i] \in {" ", "\n", "\t", "\r"}

C13_BlankTextIsInert ==
  C13_BlankText =>
    /\ parsedText.blocks = <<>>
    /\ Cursor(state) = <<0, 0, 0>>
    /\ \A i \in DOMAIN emitted : emitted[i].kind = "stateChange"
    /\ completeCalls = 0
    /\ lastCall.op = "handleKeyPress" =>
         emitted = <<>> /\ state = lastCall.before

\* a key pressed, after start(), on the model of a text of blanks that
\* holds a block separator
C13_Witness ==
  /\ C13_BlankText
  /\ \E i \in 1..(Len(parsedText.originalText) - 1) :
       /\ parsedText.originalText[i] = "\n"
       /\ parsedText.originalText[i + 1] = "\n"
  /\ Len(parsedText.originalText) >= 3
  /\ lastCall.op = "handleKeyPress"
  /\ lastCall.before.isActive
  /\ state.isActive

(***************************************************************************)
(* C14: every accepted handleKeyPress (isActive true, a target letter      *)
(* exists) emits exactly one AudioSignal, correct key or not, before any   *)
(* flag or cursor change of the call: the signal is the first callback,    *)
(* made with the state and the target's flags as they were before the      *)
(* call; its indices and totals are those of the cursor before the         *)
(* keystroke, its character is the target letter and isError is true       *)
(* exactly when the key mismatched.                                        *)
(***************************************************************************)
C14_OneSignalBeforeAnyChange ==
  [][(lastCall'.op = "handleKeyPress" /\ state.isActive /\ NamesLetter(state))
       => /\ Len(emitted') >= 1
          /\ \A i \in DOMAIN emitted' :
               emitted'[i].kind = "audioSignal" <=> i = 1
          /\ emitted'[1].state = state
          /\ emitted'[1].target = CharAt(TargetOf(state))
          /\ emitted'[1].signal =
               [wordIndexInBlock |-> state.currentWordIndex,
                totalWordsInBlock |->
                  Len(parsedText.blocks[state.currentBlockIndex + 1].words),
                letterIndexInWord |-> state.currentLetterIndex,
                totalLettersInWord |->
                  NumLetters(parsedText.blocks[state.currentBlockIndex + 1]
                               .words[state.currentWordIndex + 1]),
                blockIndexInText |-> state.currentBlockIndex,
                totalBlocksInText |-> NumBlocks,
                isError |->
                  ~SameLetter(lastCall'.key, CharAt(TargetOf(state)).char),
                character |-> CharAt(TargetOf(state)).char]]_vars

\* the signal of a second mismatch in a row on the second letter of a word
C14_Witness ==
  /\ TypedWrong
  /\ emitted[1].kind = "audioSignal"
  /\ emitted[1].signal.isError
  /\ emitted[1].signal.letterIndexInWord = 1
  /\ emitted[1].target.isError
  /\ emitted[1].state.totalErrors = 1

(***************************************************************************)
(* C16: start() is idempotent on state.  Every start() leaves isActive     *)
(* true and emits one state-change notification carrying isActive = true;  *)
(* a start() that directly follows a start() changes neither the           *)
(* TypingState nor any Character flag.                                     *)
(***************************************************************************)
C16_StartIdempotent ==
  [][lastCall'.op = "start"
       => /\ state'.isActive
          /\ Len(emitted') = 1
          /\ emitted'[1].kind = "stateChange"
          /\ emitted'[1].state = state'
          /\ emitted'[1].state.isActive
          /\ lastCall.op = "start"
               => (state' = state /\ parsedText' = parsedText)]_vars

\* a second start() in a row, mid-word with an error pending
C16_Witness ==
  /\ lastCall.op = "start"
  /\ lastCall.before.isActive
  /\ state.hasError
  /\ state.currentLetterIndex = 1
  /\ emitted[1].state.isActive

(***************************************************************************)
(* C17: start() and stop() change nothing but isActive: the cursor         *)
(* indices, hasError, totalErrors and every Character flag are unchanged,  *)
(* so a start() that follows a stop() of an active session gives back the  *)
(* TypingState the session had before the stop().                          *)
(***************************************************************************)
C17_StartStopTouchOnlyIsActive ==
  [][lastCall'.op \in {"start", "stop"}
       => /\ parsedText' = parsedText
          /\ Cursor(state') = Cursor(state)
          /\ state'.hasError = state.hasError
          /\ state'.totalErrors = state.totalErrors
          /\ state'.isActive = (lastCall'.op = "start")
          /\ (lastCall'.op = "start" /\ lastCall.op = "stop"
                /\ lastCall.before.isActive)
               => state' = lastCall.before]_vars

\* typing resumed by start() after a stop() mid-word with an error pending
C17_Witness ==
  /\ lastCall.op = "start"
  /\ ~lastCall.before.isActive
  /\ state.isActive
  /\ state.hasError
  /\ state.totalErrors = 2
  /\ state.currentLetterIndex = 1

(***************************************************************************)
(* C15: values handed out by the controller are value copies.  The object  *)
(* a receiver holds is never the controller's state object; an assignment  *)
(* by the receiver to the TypingState it got from getState() or from a     *)
(* state-change notification leaves the controller's state and Character   *)
(* flags as they were; and a later controller operation leaves the value   *)
(* the receiver goes on holding as it was.                                 *)
(***************************************************************************)
C15_HandedOutValuesAreCopies ==
  [][/\ held'.obj # thisState'
     /\ lastCall'.op = "receiverWrites"
          => (state' = state /\ parsedText' = parsedText)
     /\ (lastCall'.op \in {"start", "stop", "reset", "handleKeyPress"}
           /\ held'.obj = held.obj)
          => held'.value = held.value]_vars

\* a receiver has changed the TypingState a notification delivered to it
\* during typing, and the controller's state is still the delivered one
C15_Witness ==
  /\ lastCall.op = "receiverWrites"
  /\ held.from = "onStateChange"
  /\ held.value.currentLetterIndex = 1
  /\ held.value.isActive # state.isActive
  /\ state = lastCall.before

(***************************************************************************)
(* C19: for every text, parse yields one block per segment between         *)
(* two-line-break separators that is non-empty after trimming, in source   *)
(* order; every block has at least one word, every word has at least one   *)
(* character and contains no whitespace, and the characters of a word in   *)
(* order spell the word's original substring.  The segments are read off   *)
(* the raw text: a line break next to another line break belongs to a      *)
(* separator, and a trimmed segment is a longest stretch, from a non-blank *)
(* to a non-blank, that no separator cuts.                                 *)
(***************************************************************************)
IsBlank(c) == c \in {" ", "\n", "\t", "\r"}

\* position k of s is a line break with a line break next to it
InSeparator(s, k) ==
  /\ s[k] = "\n"
  /\ \/ k > 1 /\ s[k - 1] = "\n"
     \/ k < Len(s) /\ s[k + 1] = "\n"

\* positions a..b of s lie in one segment
SameSegment(s, a, b) == \A k \in a..b : ~InSeparator(s, k)

\* the trimmed, non-empty segments of s, as <<first, last>> positions
Segments(s) ==
  {sp \in (1..Len(s)) \X (1..Len(s)) :
     /\ sp[1] <= sp[2]
     /\ ~IsBlank(s[sp[1]]) /\ ~IsBlank(s[sp[2]])
     /\ SameSegment(s, sp[1], sp[2])
     /\ \A c \in 1..Len(s) :
          ~IsBlank(s[c]) =>
            /\ c < sp[1] => ~SameSegment(s, c, sp[1])
            /\ c > sp[2] => ~SameSegment(s, sp[2], c)}

\* the longest blank-free stretches of s, as <<first, last>> positions
BlankFreeRuns(s) ==
  {sp \in (1..Len(s)) \X (1..Len(s)) :
     /\ sp[1] <= sp[2]
     /\ \A k \in sp[1]..sp[2] : ~IsBlank(s[k])
     /\ sp[1] > 1 => IsBlank(s[sp[1] - 1])
     /\ sp[2] < Len(s) => IsBlank(s[sp[2] + 1])}

\* the place of span sp among the spans of S, in source order
PlaceOf(sp, S) == 1 + Cardinality({other \in S : other[1] < sp[1]})

C19_ParseStructure ==
  LET text == parsedText.originalText
      blocks == parsedText.blocks
  IN /\ Len(blocks) = Cardinality(Segments(text))
     /\ \A sp \in Segments(text) :
          blocks[PlaceOf(sp, Segments(text))].originalText
            = SubSeq(text, sp[1], sp[2])
     /\ \A b \in DOMAIN blocks :
          LET blockText == blocks[b].originalText
              words == blocks[b].words
          IN /\ Len(words) >= 1
             /\ Len(words) = Cardinality(BlankFreeRuns(blockText))
             /\ \A sp \in BlankFreeRuns(blockText) :
                  words[PlaceOf(sp, BlankFreeRuns(blockText))].originalText
                    = SubSeq(blockText, sp[1], sp[2])
             /\ \A w \in DOMAIN words :
                  /\ Len(words[w].characters) >= 1
                  /\ Len(words[w].characters) = Len(words[w].originalText)
                  /\ \A i \in DOMAIN words[w].characters :
                       /\ ~IsBlank(words[w].characters[i].char)
                       /\ words[w].characters[i].char
                            = words[w].originalText[i]

\* a parse of two blocks around a separator, after typing has begun
C19_Witness ==
  /\ Len(parsedText.originalText) = MaxTextLen
  /\ Len(parsedText.blocks) = 2
  /\ state.isActive
  /\ \E k \in 1..(Len(parsedText.originalText) - 1) :
       /\ parsedText.originalText[k] = "\n"
       /\ parsedText.originalText[k + 1] = "\n"

(***************************************************************************)
(* C20: calculateVelocity maps a time delta of at most 50 ms to velocity   *)
(* 1, a delta of at least 500 ms to velocity 0, and a delta d between 50   *)
(* and 500 ms to (500 - d) / 450; the result is always within [0, 1], and  *)
(* of two signals the one with the larger delta never has the larger       *)
(* velocity.                                                               *)
(***************************************************************************)
C20_VelocityMapping ==
  [][velocity' # NoVelocity
       => /\ velocity'.den > 0
          /\ timeDelta' <= 50 => velocity'.num = velocity'.den
          /\ timeDelta' >= 500 => velocity'.num = 0
          /\ (timeDelta' > 50 /\ timeDelta' < 500)
               => velocity'.num * 450 = (500 - timeDelta') * velocity'.den
          /\ velocity'.num >= 0
          /\ velocity'.num <= velocity'.den
          /\ (velocity # NoVelocity /\ timeDelta' >= timeDelta)
               => velocity'.num * velocity.den
                    <= velocity.num * velocity'.den]_vars

\* a signal 275 ms after the last one: velocity one half
C20_Witness ==
  /\ velocity # NoVelocity
  /\ timeDelta = 275
  /\ velocity.num * 2 = velocity.den

(***************************************************************************)
(* C21: a signal passed to processSignal while the engine is not           *)
(* initialized or while enabled is false is dropped.  The call is dropped  *)
(* exactly in that case; a dropped call issues no sound command and        *)
(* leaves every field of the engine as it was (the last-keystroke time,    *)
(* the pan position and the wet levels among them); and a step that        *)
(* initializes or enables the engine plays nothing, so a dropped signal is *)
(* not replayed.                                                           *)
(***************************************************************************)
C21_UnreadySignalIsDropped ==
  [][/\ played' # played
          => (played'.dropped <=> ~(engine.enabled /\ engine.isInitialized))
     /\ (played' # played /\ played'.dropped)
          => (engine' = engine /\ played'.commands = <<>>)
     /\ (engine'.isInitialized # engine.isInitialized
           \/ engine'.enabled # engine.enabled
           \/ engine'.pendingStarts # engine.pendingStarts)
          => played' = played]_vars

\* a signal was dropped while Tone.start() was pending, and the engine is
\* initialized by now with that call still the last one
C21_Witness ==
  /\ played.dropped
  /\ played.signal.wordIndexInBlock = 5
  /\ played.commands = <<>>
  /\ engine.isInitialized
  /\ engine.enabled
  /\ engine.lastKeyPressTime = 0

(***************************************************************************)
(* C24: every error signal that the engine processes is voiced with the    *)
(* same fixed dissonant cluster, the MIDI notes 40, 41 and 46 in that      *)
(* order, whatever the synthesis mode and the indices of the signal; an    *)
(* error signal is never silent.                                           *)
(***************************************************************************)
C24_ErrorsUseFixedCluster ==
  (~played.dropped /\ played.signal.isError)
    => /\ Len(played.commands) = 3
       /\ \A i \in 1..3 :
            /\ played.commands[i].op = "synth"
            /\ played.commands[i].pitch.unit = "midi"
            /\ played.commands[i].pitch.den = 1
       /\ played.commands[1].pitch.num = 40
       /\ played.commands[2].pitch.num = 41
       /\ played.commands[3].pitch.num = 46

(***************************************************************************)
(* C25: in every synthesis mode the note duration of a correct keystroke   *)
(* is inversely related to velocity: when the same correct signal is       *)
(* processed at a higher velocity than the time before, in the same mode,  *)
(* none of its sounds lasts longer than the time before.                   *)
(***************************************************************************)
\* f <= g for fractions of positive denominators
AtMost(f, g) == f.num * g.den <= g.num * f.den

\* the length of a sound, in whole notes for a note value, in seconds else
LengthOf(duration) ==
  CASE duration.note = "16n" -> Frac(1, 16)
    [] duration.note = "8n" -> Frac(1, 8)
    [] duration.note = "4n" -> Frac(1, 4)
    [] duration.note = "2n" -> Frac(1, 2)
    [] OTHER -> duration.seconds

\* both the last call and the one before were processed, with a velocity
SameCorrectSignalFaster ==
  /\ ~played.dropped /\ ~played'.dropped
  /\ played.velocity # NoVelocity /\ played'.velocity # NoVelocity
  /\ ~played'.signal.isError
  /\ played'.signal = played.signal
  /\ engine'.synthesisMode = engine.synthesisMode
  /\ ~AtMost(played'.velocity, played.velocity)

C25_FasterIsNeverLonger ==
  [][SameCorrectSignalFaster
       => \A i \in DOMAIN played'.commands :
            AtMost(LengthOf(played'.commands[i].duration),
                   LengthOf(played.commands[i].duration))]_vars

(***************************************************************************)
(* C26: with an effect enabled and its configuration fixed, the wet level  *)
(* that processSignal sets does not decrease when blockIndexInText /       *)
(* totalBlocksInText does not: of two signals processed one after the      *)
(* other in a text, the later one at the same or a later block, the        *)
(* reverb and the delay level after the second are at least the levels     *)
(* after the first.                                                        *)
(***************************************************************************)
\* two processed signals in a row, the second not at an earlier block of
\* the same text, the effect switches untouched in between
NextSignalNotEarlier ==
  /\ engine.build = "enhanced"
  /\ ~played.dropped /\ ~played'.dropped
  /\ played' # played
  /\ played'.signal.totalBlocksInText = played.signal.totalBlocksInText
  /\ played'.signal.blockIndexInText >= played.signal.blockIndexInText
  /\ engine'.reverbEnabled = engine.reverbEnabled
  /\ engine'.reverbAmount = engine.reverbAmount
  /\ engine'.delayEnabled = engine.delayEnabled
  /\ engine'.delayAmount = engine.delayAmount

C26_WetLevelsFollowProgress ==
  [][NextSignalNotEarlier
       => /\ engine.reverbEnabled
               => AtMost(engine.reverbWet, engine'.reverbWet)
          /\ engine.delayEnabled
               => AtMost(engine.delayWet, engine'.delayWet)]_vars

\* a signal of the second block was processed with reverb and delay on
C26_Witness ==
  /\ engine.build = "enhanced"
  /\ ~played.dropped
  /\ played.signal.blockIndexInText = 1
  /\ engine.reverbEnabled /\ engine.delayEnabled
  /\ engine.delayWet.num > 0
  /\ engine.reverbWet.num * 100 > 9 * engine.reverbWet.den

(***************************************************************************)
(* C30: in every scale-quantized mode (pentatonic, harmonic, microtonal,   *)
(* ambient) the pitch of a correct keystroke is the scale-table entry at   *)
(* letterIndexInWord modulo the table length, raised by an octave offset   *)
(* derived from wordIndexInBlock: a whole number of octaves, none for the  *)
(* first word, above the entry at the base octave; for pentatonic the      *)
(* MIDI note scale[letterIndexInWord mod 5] + 12 * (baseOctave +           *)
(* floor(wordIndexInBlock / 5)).  The table index is within the table.     *)
(***************************************************************************)
ScaleTable(mode) ==
  CASE mode = "pentatonic" -> pentatonicScale
    [] mode = "ambient" -> pentatonicScale
    [] mode = "microtonal" -> microtonalScale
    [] mode = "harmonic" -> harmonicSeries

\* the powers of two up to 2^5
Octaves == {1, 2, 4, 8, 16, 32}

\* the last call voiced a correct keystroke in a scale-quantized mode
ScaleNotePlayed ==
  /\ engine.build = "enhanced"
  /\ ~played.dropped
  /\ ~played.signal.isError
  /\ engine.synthesisMode # "granular"

C30_PitchFromScaleAndOctave ==
  ScaleNotePlayed =>
    LET mode == engine.synthesisMode
        table == ScaleTable(mode)
        index == (played.signal.letterIndexInWord % Len(table)) + 1
        w == played.signal.wordIndexInBlock
        pitch == played.commands[1].pitch
        \* the entry at the base octave, in the unit of the pitch
        base == CASE mode = "harmonic" -> 55 * table[index] * pitch.den
                  [] mode = "microtonal" ->
                       table[index] + 12 * engine.baseOctave * pitch.den
                  [] OTHER ->
                       (table[index] + 12 * engine.baseOctave) * pitch.den
    IN /\ Len(played.commands) = 1
       /\ index \in DOMAIN table
       /\ IF mode = "harmonic"
            THEN /\ pitch.unit = "hz"
                 /\ \E k \in Octaves : pitch.num = k * base
                 /\ w = 0 => pitch.num = base
            ELSE /\ pitch.unit = "midi"
                 /\ pitch.num >= base
                 /\ (pitch.num - base) % (12 * pitch.den) = 0
                 /\ w = 0 => pitch.num = base
       /\ mode = "pentatonic"
            => pitch.num = table[index] + 12 * (engine.baseOctave + w \div 5)

(***************************************************************************)
(* C22: audio initialization happens once and is idempotent: for any       *)
(* interleaving of keydown and focus events, several of them arriving      *)
(* while a first initialize() is pending included, Tone.start() is         *)
(* requested at most once.                                                 *)
(***************************************************************************)
C22_AudioStartRequestedOnce == engine.toneStarts <= 1

(***************************************************************************)
(* C23: in every state of the application, on the desktop path, on the     *)
(* mobile path and across auto-restarts, an active controller implies an   *)
(* initialized audio engine, and no signal reached processSignal before    *)
(* the initialization had completed: none was dropped by its guard.        *)
(***************************************************************************)
C23_ActiveImpliesInitialized ==
  /\ state.isActive => engine.isInitialized
  /\ played # NothingPlayed => engine.isInitialized /\ ~played.dropped

\* a controller started again after an auto-restart: a signal was
\* processed, and the text is untouched at the active controller
C23_Witness ==
  /\ state.isActive
  /\ played # NothingPlayed
  /\ lastCall.op = "start"
  /\ lastCall.before = InitialState
  /\ \A p \in Positions : ~CharAt(p).isTyped /\ ~CharAt(p).isError

(***************************************************************************)
(* C27: for every AudioSignal the state machine emits, the stereo position *)
(* that calculatePanning gives is (0.7 * wordIndexInBlock /                *)
(* totalWordsInBlock + 0.3 * letterIndexInWord / totalLettersInWord) * 2   *)
(* - 1, with no division by zero, and lies within [-1, 1].                 *)
(***************************************************************************)
C27_PanningWellDefinedInRange ==
  (engine.build = "enhanced" /\ played # NothingPlayed) =>
    LET w == played.signal.wordIndexInBlock
        W == played.signal.totalWordsInBlock
        l == played.signal.letterIndexInWord
        L == played.signal.totalLettersInWord
        pan == engine.pan
    IN /\ W > 0
       /\ L > 0
       /\ pan.den > 0
       \* pan = (7/10 * w/W + 3/10 * l/L) * 2 - 1
       /\ pan.num * (10 * W * L)
            = pan.den * (2 * (7 * w * L + 3 * l * W) - 10 * W * L)
       /\ 0 - pan.den <= pan.num
       /\ pan.num <= pan.den

\* the signal of the second letter of a word was panned
C27_Witness ==
  /\ engine.build = "enhanced"
  /\ ~played.dropped
  /\ played.signal.letterIndexInWord = 1
  /\ engine.pan.num # 0 - engine.pan.den

(***************************************************************************)
(* C28: on every input path (keydown, beforeinput, input), an input event  *)
(* that carries more than one character results in exactly one             *)
(* handleKeyPress call, whose argument is the first character.             *)
(***************************************************************************)
C28_FirstCharacterOnly ==
  (Len(app.lastInput.data) > 1 /\ ~app.lastInput.special) =>
    app.lastInput.calls = <<<<app.lastInput.data[1]>>>>

(***************************************************************************)
(* C29: when the restart timer scheduled at completion fires, the          *)
(* application's controller ends inactive at (0,0,0) with no error,        *)
(* totalErrors 0 and every Character flag false, whatever keystrokes and   *)
(* start() calls came between completion and the firing; and at most one   *)
(* such timer is pending at any time.                                      *)
(***************************************************************************)
C29_RestartTimerLeavesInitial ==
  [][/\ app'.timers <= 1
     /\ app'.timers < app.timers =>
          /\ state' = [currentBlockIndex |-> 0, currentWordIndex |-> 0,
                       currentLetterIndex |-> 0, isActive |-> FALSE,
                       hasError |-> FALSE, totalErrors |-> 0]
          /\ \A b \in DOMAIN parsedText'.blocks :
               \A w \in DOMAIN parsedText'.blocks[b].words :
                 \A c \in DOMAIN parsedText'.blocks[b].words[w].characters :
                   LET ch == parsedText'.blocks[b].words[w].characters[c]
                   IN ~ch.isTyped /\ ~ch.isError]_vars

\* the timer has fired on a controller that was started again after the
\* completion: the new controller has made no call, a signal was played
\* before, no timer is left
C29_Witness ==
  /\ lastCall.op = "constructor"
  /\ played # NothingPlayed
  /\ app.timers = 0
  /\ app.isAudioInitialized

(***************************************************************************)
(* C31: the key comparison is case-insensitive in both directions: on a    *)
(* target letter c, handleKeyPress accepts the lower-case and the          *)
(* upper-case form of c, whether the text holds c in lower or upper case,  *)
(* and rejects every other single character and every longer key string.   *)
(***************************************************************************)
C31_CaseInsensitiveMatch ==
  Accepted =>
    LET target == CharAt(TargetOf(lastCall.before))
        matches == SameLetter(lastCall.key, target.char)
    IN /\ emitted # <<>>
       /\ emitted[1].kind = "audioSignal"
       /\ emitted[1].signal.isError <=> ~matches
       /\ target.isTyped <=> matches
       /\ target.isError <=> ~matches

\* an upper-case key was accepted on a lower-case letter of the text
C31_Witness ==
  /\ TypedCorrect
  /\ lastCall.key = <<"A">>
  /\ CharAt(TargetOf(lastCall.before)).char = "a"
  /\ ~emitted[1].signal.isError

(***************************************************************************)
(* C32: every accepted handleKeyPress call emits at least one state-change *)
(* notification after its AudioSignal, and the last notification of the    *)
(* call carries a snapshot equal to the TypingState right after the call;  *)
(* a handleKeyPress call that is a no-op emits none.                       *)
(***************************************************************************)
StateChangesOfCall == {i \in DOMAIN emitted : emitted[i].kind = "stateChange"}

C32_LastNotificationIsFinalState ==
  lastCall.op = "handleKeyPress" =>
    IF Accepted
      THEN /\ StateChangesOfCall # {}
           /\ \A i \in StateChangesOfCall :
                \E j \in 1..(i - 1) : emitted[j].kind = "audioSignal"
           /\ \E i \in StateChangesOfCall :
                /\ \A j \in StateChangesOfCall : j <= i
                /\ emitted[i].state = state
                /\ i = Len(emitted) \/ emitted[Len(emitted)].kind = "complete"
      ELSE emitted = <<>>

\* the completing keystroke: two notifications, the last one carries the
\* final state
C32_Witness ==
  /\ Accepted
  /\ Cardinality(StateChangesOfCall) = 2
  /\ IsComplete
  /\ lastCall.before.totalErrors = 1

(***************************************************************************)
(* C33: in every reachable state the isTyped flags describe the cursor     *)
(* exactly: a letter has isTyped = true if and only if it lies strictly    *)
(* before the cursor in reading order (earlier block, earlier word of the  *)
(* current block, or earlier letter of the current word), and no           *)
(* non-letter Character ever has isTyped = true.                           *)
(***************************************************************************)
C33_TypedFlagsDescribeCursor ==
  \A p \in Positions :
    CharAt(p).isTyped
      <=> (CharAt(p).isLetter /\ Before(CursorOf(p), Cursor(state)))

\* the cursor is on the second letter of a later word: typed letters
\* before it, untyped letters from it on
C33_Witness ==
  /\ state.currentWordIndex >= 1
  /\ state.currentLetterIndex = 1
  /\ NamesLetter(state)
  /\ \E p \in Positions : CharAt(p).isLetter /\ ~CharAt(p).isTyped
  /\ \E p \in Positions : CharAt(p).isLetter /\ CharAt(p).isTyped

(***************************************************************************)
(* C34: in every reachable state at most one Character has isError = true  *)
(* and it is the current target letter; hasError is true if and only if    *)
(* the current target letter has isError = true; no Character has isTyped  *)
(* and isError both true.                                                  *)
(***************************************************************************)
C34_ErrorFlagOnTargetOnly ==
  /\ \A p \in Positions :
       CharAt(p).isError => NamesLetter(state) /\ p = TargetOf(state)
  /\ state.hasError
       <=> (NamesLetter(state) /\ CharAt(TargetOf(state)).isError)
  /\ \A p \in Positions : ~(CharAt(p).isTyped /\ CharAt(p).isError)

\* an error is pending on the second letter of a word, after an error on an
\* earlier letter was corrected
C34_Witness ==
  /\ state.hasError
  /\ state.currentLetterIndex = 1
  /\ state.totalErrors = 2
  /\ lastCall.op = "handleKeyPress"
  /\ ~lastCall.before.hasError
  /\ CharAt(TargetOf(state)).isError

(***************************************************************************)
(* C35: between two reset() calls totalErrors never decreases, is changed  *)
(* only by handleKeyPress, and counts the accepted mismatching keystrokes  *)
(* since the last reset: each of them adds one, reset() sets it to 0, and  *)
(* no other call changes it, a keystroke ignored because the machine is    *)
(* inactive or has no target letter included.                              *)
(***************************************************************************)
C35_TotalErrorsCountsMismatches ==
  [][LET mismatch ==
           /\ lastCall'.op = "handleKeyPress"
           /\ state.isActive
           /\ NamesLetter(state)
           /\ ~SameLetter(lastCall'.key, CharAt(TargetOf(state)).char)
     IN state'.totalErrors =
          IF lastCall'.op = "reset" THEN 0
          ELSE IF mismatch THEN state.totalErrors + 1
          ELSE state.totalErrors]_vars

\* a key that mismatches the target letter was ignored, the machine being
\* inactive, after two mismatches were counted
C35_Witness ==
  /\ lastCall.op = "handleKeyPress"
  /\ ~lastCall.before.isActive
  /\ NamesLetter(lastCall.before)
  /\ ~SameLetter(lastCall.key, CharAt(TargetOf(lastCall.before)).char)
  /\ state.totalErrors = 2

(***************************************************************************)
(* C36: for a ParsedText in which every word has at least one letter, the  *)
(* number of accepted correct keystrokes from the initial state to         *)
(* Complete equals TextParser.getTotalLetters(parsedText), whatever        *)
(* mismatches and stop()/start() pauses are interleaved.  The keystrokes   *)
(* are counted by the letters they mark: reset() leaves none marked, each  *)
(* accepted correct keystroke marks exactly one more, no other call marks  *)
(* or unmarks any, and at Complete the marked letters number               *)
(* getTotalLetters(parsedText).                                            *)
(***************************************************************************)
EveryWordHasLetter(pt) ==
  \A b \in DOMAIN pt.blocks :
    \A w \in DOMAIN pt.blocks[b].words :
      \E c \in DOMAIN pt.blocks[b].words[w].characters :
        pt.blocks[b].words[w].characters[c].isLetter

\* the letters of pt marked typed
TypedLetters(pt) ==
  {<<b, w, c>> \in
     UNION {UNION {{<<b, w, c>> :
                      c \in DOMAIN pt.blocks[b].words[w].characters} :
                   w \in DOMAIN pt.blocks[b].words} :
            b \in DOMAIN pt.blocks} :
     /\ pt.blocks[b].words[w].characters[c].isLetter
     /\ pt.blocks[b].words[w].characters[c].isTyped}

C36_CorrectKeystrokesEqualTotalLetters ==
  [][LET correct ==
           /\ lastCall'.op = "handleKeyPress"
           /\ state.isActive
           /\ NamesLetter(state)
           /\ SameLetter(lastCall'.key, CharAt(TargetOf(state)).char)
     IN /\ Cardinality(TypedLetters(parsedText')) =
             IF lastCall'.op = "reset" THEN 0
             ELSE IF correct THEN Cardinality(TypedLetters(parsedText)) + 1
             ELSE Cardinality(TypedLetters(parsedText))
        /\ (/\ EveryWordHasLetter(parsedText')
            /\ state'.currentBlockIndex >= Len(parsedText'.blocks))
             => Cardinality(TypedLetters(parsedText'))
                  = getTotalLetters(parsedText')]_vars

\* Complete was reached over three letters in more than one word or
\* block, with two mismatches on the way
C36_Witness ==
  /\ EveryWordHasLetter(parsedText)
  /\ IsComplete
  /\ completeCalls = 1
  /\ state.totalErrors = 2
  /\ Cardinality(TypedLetters(parsedText)) = 3
  /\ Len(parsedText.blocks[1].words) + NumBlocks >= 3

(***************************************************************************)
(* C37: every AudioSignal emitted satisfies 0 <= letterIndexInWord <       *)
(* totalLettersInWord, 0 <= wordIndexInBlock < totalWordsInBlock and       *)
(* 0 <= blockIndexInText < totalBlocksInText: the three totals are at      *)
(* least 1, and the progress ratios of the sound policy are well defined   *)
(* and below 1.                                                            *)
(***************************************************************************)
C37_SignalIndicesWithinTotals ==
  \A i \in DOMAIN emitted :
    emitted[i].kind = "audioSignal" =>
      LET s == emitted[i].signal
      IN /\ 0 <= s.letterIndexInWord
         /\ s.letterIndexInWord < s.totalLettersInWord
         /\ 0 <= s.wordIndexInBlock
         /\ s.wordIndexInBlock < s.totalWordsInBlock
         /\ 0 <= s.blockIndexInText
         /\ s.blockIndexInText < s.totalBlocksInText

\* the signal of a letter of the second of two blocks
C37_Witness ==
  /\ emitted # <<>>
  /\ emitted[1].kind = "audioSignal"
  /\ emitted[1].signal.blockIndexInText = 1
  /\ emitted[1].signal.totalBlocksInText = 2

(***************************************************************************)
(* C38: after every completion-triggered auto-restart typing resumes on    *)
(* each input path: a character entered afterwards through the mobile      *)
(* input (beforeinput, input), like one entered by a desktop keydown,      *)
(* finds the new controller started and is checked against the first       *)
(* letter of the text.                                                     *)
(***************************************************************************)
\* the last handleKeyPress call was made on the controller of a restart: it
\* found the text untouched although a signal had been played before
FirstCharacterAfterRestart ==
  /\ lastCall.op = "handleKeyPress"
  /\ app.lastInput.path \in {"keydown", "beforeinput", "input"}
  /\ Cursor(lastCall.before) = <<0, 0, 0>>
  /\ lastCall.before.totalErrors = 0
  /\ ~lastCall.before.hasError
  /\ played # NothingPlayed

C38_TypingResumesOnEachPath ==
  FirstCharacterAfterRestart =>
    /\ lastCall.before.isActive
    /\ emitted # <<>>
    /\ emitted[1].kind = "audioSignal"
    /\ emitted[1].signal.character = parsedText.originalText[1]

(***************************************************************************)
(* C39: for any interleaving of keydown and focus handlers, several of     *)
(* them suspended on the pending audio initialization at once and any      *)
(* number of auto-restarts included, the audio control panel (AudioUI) is  *)
(* constructed at most once.                                               *)
(***************************************************************************)
C39_AudioUIConstructedOnce == app.audioUI <= 1

\* two handlers were suspended in initialize() at once, both have resumed,
\* and the text was restarted since: one panel
C39_Witness ==
  /\ app.audioUI = 1
  /\ engine.toneStarts = 2
  /\ app.waiting = <<>>
  /\ lastCall.op = "constructor"
  /\ played # NothingPlayed
====
